---- MODULE Spec2Model ----
(***************************************************************************)
(* Built-in function invocation contract of the NASL runtime: the FnError  *)
(* taxonomy (nasl/utils/error.rs), the argument binder and the function    *)
(* registry of the cryptography built-ins (built_in_functions/             *)
(* cryptography/mod.rs), the interpreter error context                     *)
(* (nasl/interpreter/error.rs) and the SSH session's command call          *)
(* (nasl/builtin/ssh/russh/session.rs).                                    *)
(*                                                                         *)
(* Each component has its own variables, initial predicate, actions and    *)
(* specification; a specification keeps the other components' variables    *)
(* at their idle values.                                                   *)
(***************************************************************************)
EXTENDS Integers, Sequences, FiniteSets, TLC

VARIABLES
    \* ---- FnError (nasl/utils/error.rs)
    fnErr,        \* the FnError under construction / inspection
    fnPrev,       \* the FnError before the last operation
    fnOp,         \* name of the last operation applied
    fnSrc,        \* the value the last conversion consumed
    fnLastWith,   \* the value of the last with(ReturnValue(..)) since conversion
    fnRead,       \* what the last read (return_value() / retryable()) returned
    \* ---- Argument binder (built_in_functions/cryptography/mod.rs)
    register,     \* the call's named arguments: name -> Option<ContextType>
    usizeBits,    \* width of the platform's usize
    bindOp,       \* the extraction function last called
    bindKey,      \* its key argument
    bindRequired, \* its required argument
    bindResult,   \* what it returned
    \* ---- Function registry (built_in_functions/cryptography/mod.rs)
    tables,       \* module -> the function names its own lookup resolves
    lookupName,   \* the name last looked up
    lookupResult, \* what the composed lookup returned, and the modules it asked
    \* ---- Interpreter error context (nasl/interpreter/error.rs)
    ierr,         \* the InterpretError being propagated
    iPrev,        \* the InterpretError before the last operation
    iOp,          \* name of the last operation applied
    iSrc,         \* the lower-layer value the last conversion consumed
    iStmt,        \* the statement the last operation was given, if any
    iLoc,         \* what the last line_column() / line() / column() returned
    \* ---- Call site of one built-in invocation
    csPc,         \* "call", "returned", "continue" or "fatal"
    csAttempts,   \* invocations of the built-in made so far
    csOutcome,    \* what the last invocation returned
    csAction,     \* how the call site handled it
    csValue,      \* the value execution continues with, if any
    \* ---- SshSession::call (nasl/builtin/ssh/russh/session.rs)
    sshPc,        \* "start", "loop", "returned", "failed" or "panicked"
    sshCode,      \* the local `code`: Option<u32>
    sshStdout,    \* the bytes written to stdout so far
    sshReceived,  \* the channel messages channel.wait() has yielded, in order
    sshEnded,     \* channel.wait() has yielded None
    sshResult     \* what call returned

fnVars == <<fnErr, fnPrev, fnOp, fnSrc, fnLastWith, fnRead>>

bindVars == <<register, usizeBits, bindOp, bindKey, bindRequired, bindResult>>

regVars == <<tables, lookupName, lookupResult>>

intVars == <<ierr, iPrev, iOp, iSrc, iStmt, iLoc>>

csVars == <<csPc, csAttempts, csOutcome, csAction, csValue>>

sshVars == <<sshPc, sshCode, sshStdout, sshReceived, sshEnded, sshResult>>

vars == <<fnVars, bindVars, regVars, intVars, csVars, sshVars>>

\* What each component's actions leave alone.
FnOthers == <<bindVars, regVars, intVars, csVars, sshVars>>
BindOthers == <<fnVars, regVars, intVars, csVars, sshVars>>
RegOthers == <<fnVars, bindVars, intVars, csVars, sshVars>>
IntOthers == <<fnVars, bindVars, regVars, csVars, sshVars>>
CsOthers == <<fnVars, bindVars, regVars, intVars, sshVars>>
SshOthers == <<fnVars, bindVars, regVars, intVars, csVars>>

(***************************************************************************)
(* Option<T>                                                               *)
(***************************************************************************)
None == [some |-> FALSE]
Some(v) == [some |-> TRUE, val |-> v]

(***************************************************************************)
(* Input domains.  MaxNum bounds the numbers carried by values and errors. *)
(***************************************************************************)
MaxNum == 1

\* Consecutive inspections of one error that are followed.
MaxReads == 2

\* NaslValue: only the variants the claims distinguish.
NullValue == [t |-> "Null"]
NumberValue(n) == [t |-> "Number", n |-> n]
StringValue(s) == [t |-> "String", s |-> s]
DataValue(d) == [t |-> "Data", d |-> d]

FallbackValues ==
    {NullValue} \cup {NumberValue(n) : n \in 0..MaxNum} \cup {StringValue(<<97>>)}

\* StorageError: Retry is the distinguished transient cause; the other
\* variants stand for every cause that is not Retry.
StorageRetry(m) == [tag |-> "Retry", msg |-> m]
StorageErrors ==
    {StorageRetry("busy"), [tag |-> "NotFound", msg |-> "k"],
     [tag |-> "ConnectionLost", msg |-> "db"]}

\* BuiltinError is opaque to the taxonomy.
BuiltinErrors == {[tag |-> "Ssh"], [tag |-> "Cryptography"]}

\* ArgumentError variants.
MissingPositionals(e, g) == [tag |-> "MissingPositionals", expected |-> e, got |-> g]
TrailingPositionals(e, g) == [tag |-> "TrailingPositionals", expected |-> e, got |-> g]
MissingNamed(names) == [tag |-> "MissingNamed", names |-> names]
UnexpectedArgument(n) == [tag |-> "UnexpectedArgument", name |-> n]
WrongArgument(msg) == [tag |-> "WrongArgument", msg |-> msg]

\* format!("Expected {key} to be {expected} but it is {got}")
wrong_argument(key, expected, got) ==
    WrongArgument([fmt |-> "Expected {key} to be {expected} but it is {got}",
                   key |-> key, expected |-> expected, got |-> got])

ArgumentErrors ==
    {MissingPositionals(MaxNum + 1, MaxNum), TrailingPositionals(0, MaxNum),
     MissingNamed(<<"key">>), UnexpectedArgument("foo"),
     wrong_argument("key", "a String or Data Value", "Null")}

\* InternalError has the single variant Storage(StorageError).
InternalStorage(se) == [tag |-> "Storage", cause |-> se]
InternalErrors == {InternalStorage(se) : se \in StorageErrors}

\* FnErrorKind
KindArgument(a) == [variant |-> "Argument", inner |-> a]
KindBuiltin(b) == [variant |-> "Builtin", inner |-> b]
KindInternal(i) == [variant |-> "Internal", inner |-> i]
FnErrorKinds ==
    {KindArgument(a) : a \in ArgumentErrors}
        \cup {KindBuiltin(b) : b \in BuiltinErrors}
        \cup {KindInternal(i) : i \in InternalErrors}

(***************************************************************************)
(* FnError and its conversions                                             *)
(***************************************************************************)
return_value(e) == e.return_value

retryable(e) == e.retryable

from_kind_retryable(kind) == [kind |-> kind, return_value |-> None, retryable |-> TRUE]

from_kind(kind) == [kind |-> kind, return_value |-> None, retryable |-> FALSE]

FromFnErrorKind(kind) == from_kind(kind)

FromArgumentError_retryable(a) == from_kind_retryable(KindArgument(a))

FromArgumentError(a) == from_kind(KindArgument(a))

FromBuiltinError(b) == from_kind(KindBuiltin(b))

\* InternalError::retryable: exhaustive match without a catch-all.
InternalRetryable(i) ==
    CASE i.tag = "Storage" /\ i.cause.tag = "Retry" -> TRUE
      [] i.tag = "Storage" -> FALSE

FromInternalError(i) ==
    LET r == InternalRetryable(i)
    IN  [kind |-> KindInternal(i), retryable |-> r, return_value |-> None]

\* T: Into<NaslValue>; the values drawn here are NaslValues already.
IntoNaslValue(v) == v

WithKeepFirst(e, v) ==
    IF e.return_value.some THEN e ELSE [e EXCEPT !.return_value = Some(IntoNaslValue(v))]

WithReturnValue(e, v) == [e EXCEPT !.return_value = Some(IntoNaslValue(v))]

FromStorageError(se) == FromFnErrorKind(KindInternal(InternalStorage(se)))

missing_argument(val) == FromFnErrorKind(KindArgument(MissingNamed(<<val>>)))

(***************************************************************************)
(* FnError: state machine of one error value                               *)
(***************************************************************************)
NoFnError == [kind |-> [variant |-> "none"], return_value |-> None, retryable |-> FALSE]
NoSrc == [tag |-> "none"]
NoRead == [which |-> "none", rv |-> None, rt |-> FALSE, n |-> 0]

FnIdle ==
    /\ fnErr = NoFnError
    /\ fnPrev = NoFnError
    /\ fnOp = "none"
    /\ fnSrc = NoSrc
    /\ fnLastWith = None
    /\ fnRead = NoRead

Built(op, src, e) ==
    /\ fnErr' = e
    /\ fnPrev' = fnErr
    /\ fnOp' = op
    /\ fnSrc' = src
    /\ fnLastWith' = None
    /\ fnRead' = NoRead

ConvertArgumentError ==
    \E a \in ArgumentErrors :
        /\ Built("FromArgumentError", a, FromArgumentError(a))
        /\ UNCHANGED FnOthers

ConvertBuiltinError ==
    \E b \in BuiltinErrors :
        /\ Built("FromBuiltinError", b, FromBuiltinError(b))
        /\ UNCHANGED FnOthers

ConvertInternalError ==
    \E i \in InternalErrors :
        /\ Built("FromInternalError", i, FromInternalError(i))
        /\ UNCHANGED FnOthers

ConvertFnErrorKind ==
    \E k \in FnErrorKinds :
        /\ Built("FromFnErrorKind", k.inner, FromFnErrorKind(k))
        /\ UNCHANGED FnOthers

ConvertStorageError ==
    \E se \in StorageErrors :
        /\ Built("FromStorageError", se, FromStorageError(se))
        /\ UNCHANGED FnOthers

MissingArgument ==
    \E key \in {"key", "data"} :
        /\ Built("missing_argument", MissingNamed(<<key>>), missing_argument(key))
        /\ UNCHANGED FnOthers

With ==
    /\ fnOp # "none"
    /\ \E v \in FallbackValues :
        /\ fnErr' = WithReturnValue(fnErr, v)
        /\ fnLastWith' = Some(v)
    /\ fnPrev' = fnErr
    /\ fnOp' = "with"
    /\ fnRead' = NoRead
    /\ UNCHANGED fnSrc
    /\ UNCHANGED FnOthers

\* return_value(&self) and retryable(&self) borrow the error immutably.
ReadReturnValue ==
    /\ fnOp # "none"
    /\ fnRead.n < MaxReads
    /\ fnRead' = [which |-> "return_value", rv |-> return_value(fnErr), rt |-> FALSE,
                  n |-> fnRead.n + 1]
    /\ fnPrev' = fnErr
    /\ fnOp' = "return_value"
    /\ UNCHANGED <<fnErr, fnSrc, fnLastWith>>
    /\ UNCHANGED FnOthers

ReadRetryable ==
    /\ fnOp # "none"
    /\ fnRead.n < MaxReads
    /\ fnRead' = [which |-> "retryable", rv |-> None, rt |-> retryable(fnErr),
                  n |-> fnRead.n + 1]
    /\ fnPrev' = fnErr
    /\ fnOp' = "retryable"
    /\ UNCHANGED <<fnErr, fnSrc, fnLastWith>>
    /\ UNCHANGED FnOthers

(***************************************************************************)
(* Claims about FnError                                                    *)
(***************************************************************************)
IsRetryCause(e) ==
    /\ e.kind.variant = "Internal"
    /\ e.kind.inner.tag = "Storage"
    /\ e.kind.inner.cause.tag = "Retry"

\* C1: in every FnError built by a conversion and any number of
\* with(ReturnValue(..)), retryable() is true only if the kind is Internal
\* wrapping the Retry storage cause; an FnError just converted from an
\* ArgumentError or a BuiltinError has retryable() = false and no return value.
C1_RetryableOnlyForRetryCause ==
    fnOp # "none" =>
        /\ retryable(fnErr) => IsRetryCause(fnErr)
        /\ fnErr.kind.variant \in {"Argument", "Builtin"} => ~retryable(fnErr)
        /\ fnOp \in {"FromArgumentError", "FromBuiltinError"} =>
                /\ fnErr.kind.variant = (IF fnOp = "FromArgumentError"
                                            THEN "Argument" ELSE "Builtin")
                /\ fnErr.kind.inner = fnSrc
                /\ retryable(fnErr) = FALSE
                /\ return_value(fnErr) = None

\* A retryable error that was augmented with a fallback value.
C1_Witness ==
    /\ fnOp = "with"
    /\ retryable(fnErr)
    /\ IsRetryCause(fnErr)
    /\ return_value(fnErr).some

\* C2: every FnError whose kind is Internal has retryable() equal to "the
\* wrapped storage cause is tagged Retry", whichever conversion produced it.
C2_RetryableFromCauseAlone ==
    (fnOp # "none" /\ fnErr.kind.variant = "Internal") =>
        retryable(fnErr) = (fnErr.kind.inner.cause.tag = "Retry")

\* C3: with(ReturnValue(v)) yields an error whose return_value() is Some(v)
\* on every later read, with kind and retryable unchanged; reading
\* return_value() or retryable() never changes the error.
C3_WithSetsFallbackReadsKeepIt ==
    /\ fnOp = "with" =>
            /\ fnLastWith.some
            /\ return_value(fnErr) = Some(fnLastWith.val)
            /\ fnErr.kind = fnPrev.kind
            /\ retryable(fnErr) = retryable(fnPrev)
    /\ fnLastWith.some => return_value(fnErr) = fnLastWith
    /\ fnOp \in {"return_value", "retryable"} => fnErr = fnPrev
    /\ fnOp = "return_value" => fnRead.rv = return_value(fnErr)
    /\ (fnOp = "return_value" /\ fnLastWith.some) => fnRead.rv = Some(fnLastWith.val)
    /\ fnOp = "retryable" => fnRead.rt = retryable(fnErr)

\* The fallback is read a second time in a row and is still the value given.
C3_Witness ==
    /\ fnOp = "return_value"
    /\ fnRead.n = 2
    /\ fnLastWith.some
    /\ fnRead.rv = fnLastWith
    /\ fnErr.kind.variant = "Builtin"

(***************************************************************************)
(* Argument binder: values, register, renderings                           *)
(***************************************************************************)
\* Width of NaslValue::Number (i64), scaled down so that the checker's
\* integers hold every value; usize is as wide (a 64-bit target) or half as
\* wide (a 32-bit target).
I64Bits == 6

\* Named arguments a call site passes.
MaxNamed == 2

Pow2(n) == 2 ^ n
I64Min == -Pow2(I64Bits - 1)
I64Max == Pow2(I64Bits - 1) - 1
UsizeMin == 0
UsizeMax(bits) == Pow2(bits) - 1
UsizeWidths == {I64Bits, I64Bits \div 2}

NumberSamples ==
    {I64Min, -1, 0, UsizeMax(I64Bits \div 2), UsizeMax(I64Bits \div 2) + 1, I64Max}

\* ContextType
CtxValue(v) == [ctx |-> "Value", v |-> v]
CtxFunction == [ctx |-> "Function", v |-> NullValue]

ContextEntries ==
    {CtxValue(DataValue(<<1, 255>>)), CtxValue(StringValue(<<97, 128>>)),
     CtxValue(NullValue), CtxFunction}
        \cup {CtxValue(NumberValue(x)) : x \in NumberSamples}

ArgNames == {"key", "data", "iv", "len"}
FunctionName == "aes128_cbc_encrypt"

EmptyRegister == [k \in ArgNames |-> None]

\* Register::named
Named(reg, key) == reg[key]

\* str::as_bytes: the UTF-8 encoding of the string's code points.
Utf8Char(c) ==
    IF c < 128 THEN <<c>>
    ELSE IF c < 2048 THEN <<192 + (c \div 64), 128 + (c % 64)>>
    ELSE <<224 + (c \div 4096), 128 + ((c \div 64) % 64), 128 + (c % 64)>>

RECURSIVE as_bytes(_)
as_bytes(s) == IF s = <<>> THEN <<>> ELSE Utf8Char(Head(s)) \o as_bytes(Tail(s))

\* format!("{:?}", x) for the derived Debug of ContextType / NaslValue.
RECURSIVE DebugList(_)
DebugList(xs) ==
    IF xs = <<>> THEN ""
    ELSE IF Len(xs) = 1 THEN ToString(Head(xs))
    ELSE ToString(Head(xs)) \o ", " \o DebugList(Tail(xs))

DebugChar(c) ==
    CASE c = 97 -> "a"
      [] c = 128 -> "\\u{80}"
      [] OTHER -> "\\u{" \o ToString(c) \o "}"

RECURSIVE DebugChars(_)
DebugChars(s) == IF s = <<>> THEN "" ELSE DebugChar(Head(s)) \o DebugChars(Tail(s))

DebugValue(v) ==
    CASE v.t = "Null" -> "Null"
      [] v.t = "Number" -> "Number(" \o ToString(v.n) \o ")"
      [] v.t = "String" -> "String(\"" \o DebugChars(v.s) \o "\")"
      [] v.t = "Data" -> "Data([" \o DebugList(v.d) \o "])"

DebugFmt(x) ==
    IF x.ctx = "Value" THEN "Value(" \o DebugValue(x.v) \o ")"
    ELSE "Function([], NoOp(None))"

\* Result<T, FunctionError>
Ok(v) == [ok |-> TRUE, val |-> v]
Err(e) == [ok |-> FALSE, err |-> e]
OkBytes(b) == [ok |-> TRUE, bytes |-> b]
Panicked == [panic |-> TRUE]

FunctionErrorNew(function, kind) == [function |-> function, kind |-> kind]

\* FunctionErrorKind::from(key) and ::from((key, expected, got))
KindFromKey(key) == MissingNamed(<<key>>)
KindFromTriple(key, expected, got) == wrong_argument(key, expected, got)
GeneralError(msg) == [tag |-> "GeneralError", msg |-> msg]

(***************************************************************************)
(* Argument binder: the extraction functions                               *)
(***************************************************************************)
get_named_data_no_string(reg, key, required, function) ==
    LET e == Named(reg, key)
    IN  IF e.some /\ e.val.ctx = "Value" /\ e.val.v.t = "Data"
            THEN Ok(Some(e.val.v.d))
        ELSE IF e.some
            THEN Err(FunctionErrorNew(function,
                     KindFromTriple(key, "a String or Data Value", DebugFmt(e.val))))
        ELSE IF required THEN Err(FunctionErrorNew(function, KindFromKey(key)))
        ELSE Ok(None)

get_named_data(reg, key, required, function) ==
    LET e == Named(reg, key)
    IN  IF e.some /\ e.val.ctx = "Value" /\ e.val.v.t = "Data"
            THEN Ok(Some(e.val.v.d))
        ELSE IF e.some /\ e.val.ctx = "Value" /\ e.val.v.t = "String"
            THEN Ok(Some(as_bytes(e.val.v.s)))
        ELSE IF e.some
            THEN Err(FunctionErrorNew(function,
                     KindFromTriple(key, "a String or Data Value", DebugFmt(e.val))))
        ELSE IF required THEN Err(FunctionErrorNew(function, KindFromKey(key)))
        ELSE Ok(None)

get_named_number(reg, key, required, function) ==
    LET e == Named(reg, key)
    IN  IF e.some /\ e.val.ctx = "Value" /\ e.val.v.t = "Number"
            THEN Ok(Some(e.val.v.n))
        ELSE IF e.some
            THEN Err(FunctionErrorNew(function,
                     KindFromTriple(key, "a Number Value", DebugFmt(e.val))))
        ELSE IF required THEN Err(FunctionErrorNew(function, KindFromKey(key)))
        ELSE Ok(None)

\* Ok(get_named_data(register, key, true, function)?.unwrap())
RequiredData(reg, key, function) ==
    LET r == get_named_data(reg, key, TRUE, function)
    IN  IF ~r.ok THEN r
        ELSE IF r.val.some THEN OkBytes(r.val.val)
        ELSE Panicked

get_key(reg, function) == RequiredData(reg, "key", function)
get_data(reg, function) == RequiredData(reg, "data", function)
get_iv(reg, function) == RequiredData(reg, "iv", function)

\* i64 -> usize, `x as usize`: the value modulo 2^bits.
WrappingCast(x, bits) == Some(x % Pow2(bits))

\* i64 -> usize, TryFrom: the value itself when usize holds it.
TryIntoUsize(x, bits) ==
    IF UsizeMin <= x /\ x <= UsizeMax(bits) THEN Some(x) ELSE None

get_len(reg, function, bits) ==
    LET buf == get_named_number(reg, "len", FALSE, function)
    IN  IF ~buf.ok THEN buf
        ELSE IF ~buf.val.some THEN Ok(None)
        ELSE LET x == buf.val.val
                 y == TryIntoUsize(x, bits)
             IN  IF y.some THEN Ok(Some(y.val))
                 ELSE Err(FunctionErrorNew(function, GeneralError(
                        [fmt |-> "System only supports numbers between {:?} and {:?} but was {:?}",
                         min |-> UsizeMin, max |-> UsizeMax(bits), was |-> x])))

(***************************************************************************)
(* Argument binder: one call's register and the extractions made on it     *)
(***************************************************************************)
NoResult == [none |-> TRUE]

BindIdle ==
    /\ register = EmptyRegister
    /\ usizeBits = I64Bits
    /\ bindOp = "none"
    /\ bindKey = "none"
    /\ bindRequired = FALSE
    /\ bindResult = NoResult

BindInit ==
    /\ register = EmptyRegister
    /\ usizeBits \in UsizeWidths
    /\ bindOp = "none"
    /\ bindKey = "none"
    /\ bindRequired = FALSE
    /\ bindResult = NoResult

Extracted(op, key, required, result) ==
    /\ bindOp' = op
    /\ bindKey' = key
    /\ bindRequired' = required
    /\ bindResult' = result
    /\ UNCHANGED <<register, usizeBits>>

\* The statement evaluator binds one more named argument of the call.
AddNamed ==
    /\ Cardinality({k \in ArgNames : register[k].some}) < MaxNamed
    /\ \E k \in ArgNames, e \in ContextEntries :
        /\ ~register[k].some
        /\ register' = [register EXCEPT ![k] = Some(e)]
    /\ bindOp' = "none"
    /\ bindKey' = "none"
    /\ bindRequired' = FALSE
    /\ bindResult' = NoResult
    /\ UNCHANGED usizeBits
    /\ UNCHANGED BindOthers

CallGetNamedData ==
    \E key \in ArgNames, required \in BOOLEAN :
        /\ Extracted("get_named_data", key, required,
                     get_named_data(register, key, required, FunctionName))
        /\ UNCHANGED BindOthers

CallGetNamedNumber ==
    \E key \in ArgNames, required \in BOOLEAN :
        /\ Extracted("get_named_number", key, required,
                     get_named_number(register, key, required, FunctionName))
        /\ UNCHANGED BindOthers

CallGetKey ==
    /\ Extracted("get_key", "key", TRUE, get_key(register, FunctionName))
    /\ UNCHANGED BindOthers

CallGetData ==
    /\ Extracted("get_data", "data", TRUE, get_data(register, FunctionName))
    /\ UNCHANGED BindOthers

CallGetIv ==
    /\ Extracted("get_iv", "iv", TRUE, get_iv(register, FunctionName))
    /\ UNCHANGED BindOthers

CallGetLen ==
    /\ Extracted("get_len", "len", FALSE, get_len(register, FunctionName, usizeBits))
    /\ UNCHANGED BindOthers

(***************************************************************************)
(* Claims about the argument binder                                        *)
(***************************************************************************)
RightKind(op, x) ==
    /\ x.ctx = "Value"
    /\ IF op = "get_named_data" THEN x.v.t \in {"Data", "String"} ELSE x.v.t = "Number"

ExpectedKind(op) ==
    IF op = "get_named_data" THEN "a String or Data Value" ELSE "a Number Value"

Extraction(op, reg, key, required) ==
    IF op = "get_named_data" THEN get_named_data(reg, key, required, FunctionName)
    ELSE get_named_number(reg, key, required, FunctionName)

C5_GetLenRange ==
    bindOp = "get_len" =>
        LET e == register["len"]
        IN  /\ bindResult # Panicked
            /\ ~e.some => bindResult = Ok(None)
            /\ (e.some /\ RightKind("get_named_number", e.val)) =>
                LET x == e.val.v.n
                IN  IF 0 <= x /\ x <= Pow2(usizeBits) - 1
                    THEN bindResult = Ok(Some(x))
                    ELSE /\ ~bindResult.ok
                         /\ bindResult.err.function = FunctionName
                         /\ bindResult.err.kind.tag = "GeneralError"
                         /\ bindResult.err.kind.tag \notin {"MissingNamed", "WrongArgument"}
                         /\ bindResult.err.kind.msg.min = 0
                         /\ bindResult.err.kind.msg.max = Pow2(usizeBits) - 1
                         /\ bindResult.err.kind.msg.was = x

\* len = -1 is refused with the range error.
C5_Witness ==
    /\ bindOp = "get_len"
    /\ register["len"] = Some(CtxValue(NumberValue(-1)))
    /\ ~bindResult.ok
    /\ bindResult.err.kind.tag = "GeneralError"
    /\ bindResult.err.kind.msg.was = -1

(***************************************************************************)
(* Function registry: the composed lookup of the cryptography modules      *)
(***************************************************************************)
Modules == {"aes_ccm", "hmac", "aes_cbc", "aes_ctr", "aes_gcm"}
LookupNames == {"foo", "aes128_cbc_encrypt"}

\* A NaslFunction is identified by the module that defines it and its name.
Callable(m, name) == [module |-> m, name |-> name]

\* <module>::lookup(function_name)
ModuleLookup(tbl, m, name) == IF name \in tbl[m] THEN Some(Callable(m, name)) ELSE None

\* Option::or_else: the closure runs only when the receiver is None.  The
\* modules asked so far are carried along with the result.
Asked(tbl, m, name) == [res |-> ModuleLookup(tbl, m, name), consulted |-> <<m>>]

or_else(acc, tbl, m, name) ==
    IF acc.res.some THEN acc
    ELSE [res |-> ModuleLookup(tbl, m, name), consulted |-> Append(acc.consulted, m)]

lookup_hmac_first(tbl, name) ==
    or_else(or_else(or_else(or_else(Asked(tbl, "hmac", name),
        tbl, "aes_ccm", name), tbl, "aes_cbc", name), tbl, "aes_ctr", name),
        tbl, "aes_gcm", name)

lookup(tbl, name) ==
    or_else(or_else(or_else(or_else(Asked(tbl, "aes_ccm", name),
        tbl, "hmac", name), tbl, "aes_cbc", name), tbl, "aes_ctr", name),
        tbl, "aes_gcm", name)

NoLookup == [res |-> None, consulted |-> <<>>]

RegIdle ==
    /\ tables = [m \in Modules |-> {}]
    /\ lookupName = "none"
    /\ lookupResult = NoLookup

\* The registry is built once at startup; any assignment of names to modules.
RegInit ==
    /\ tables \in [Modules -> SUBSET LookupNames]
    /\ lookupName = "none"
    /\ lookupResult = NoLookup

Lookup ==
    \E name \in LookupNames :
        /\ lookupName' = name
        /\ lookupResult' = lookup(tables, name)
        /\ UNCHANGED tables
        /\ UNCHANGED RegOthers

(***************************************************************************)
(* Claims about the function registry                                      *)
(***************************************************************************)
CascadeOrder == <<"aes_ccm", "hmac", "aes_cbc", "aes_ctr", "aes_gcm">>

Defining(name) == {i \in 1..Len(CascadeOrder) : name \in tables[CascadeOrder[i]]}

FirstDefining(name) ==
    CHOOSE i \in Defining(name) : \A j \in Defining(name) : i <= j

\* C6: the composed lookup resolves a name to the callable of the first
\* module, in the order aes_ccm, hmac, aes_cbc, aes_ctr, aes_gcm, that defines
\* it; later modules are asked only when all earlier ones return none, and the
\* result is none exactly when no module defines the name.
C6_FirstMatchWins ==
    lookupName # "none" =>
        IF Defining(lookupName) = {}
        THEN /\ lookupResult.res = None
             /\ lookupResult.consulted = CascadeOrder
        ELSE LET i == FirstDefining(lookupName)
             IN  /\ lookupResult.res = Some(Callable(CascadeOrder[i], lookupName))
                 /\ lookupResult.consulted = SubSeq(CascadeOrder, 1, i)

\* The name is defined by hmac and by aes_gcm but not by aes_ccm: hmac wins.
C6_Witness ==
    /\ lookupName = "foo"
    /\ "foo" \in tables["hmac"] /\ "foo" \in tables["aes_gcm"]
    /\ "foo" \notin tables["aes_ccm"]
    /\ lookupResult.res = Some(Callable("hmac", "foo"))
    /\ lookupResult.consulted = <<"aes_ccm", "hmac">>

(***************************************************************************)
(* Interpreter error context: lower-layer errors and statements            *)
(***************************************************************************)
\* Largest line and column of a statement's first token.
MaxPos == 2

TokenCategories == {[category |-> "Plus"], [category |-> "Semicolon"]}
SyntaxErrors == {[syntax |-> "UnexpectedToken"], [syntax |-> "UnclosedStatement"]}
IoErrorKinds == {[io |-> "NotFound"], [io |-> "TimedOut"]}
IoErrors == {[kind |-> k, message |-> "os error"] : k \in IoErrorKinds}
FmtErrors == {[fmterror |-> "Error"]}
LoadErrors == {[load |-> "NotFound"], [load |-> "PermissionDenied"]}

\* io::Error::kind
IoErrorKindOf(e) == e.kind

\* NaslError: the two variants From<FunctionError> singles out, and two of
\* the others.
NaslIOError(ie) == [variant |-> "IOError", arg |-> ie]
NaslGeneralError(se) == [variant |-> "GeneralError", arg |-> se]
NaslErrors ==
    {NaslIOError(ie) : ie \in IoErrorKinds}
        \cup {NaslGeneralError(se) : se \in StorageErrors}
        \cup {[variant |-> "MissingArguments", arg |-> [names |-> <<"key">>]],
              [variant |-> "WrongArgument", arg |-> [names |-> <<"len">>]]}

FunctionErrors == {FunctionErrorNew(f, k) : f \in {"get_kb_item", "recv"}, k \in NaslErrors}

\* A statement with its first token; a token carries line_column.
Token(l, c) == [line_column |-> <<l, c>>]
DefaultToken == Token(0, 0)
StatementAt(kind, l, c) == [kind |-> kind, token |-> Token(l, c)]
TokenlessKinds == {"EoF", "AttackCategory", "Continue", "Break"}
Statements ==
    {StatementAt("Call", l, c) : l \in 1..MaxPos, c \in 1..MaxPos}
        \cup {[kind |-> "EoF", token |-> DefaultToken]}

\* Statement::as_token: the first token of the statement; the statements
\* without a token give the default one.
as_token(stmt) == stmt.token

\* InterpretErrorKind
IK(variant, arg) == [variant |-> variant, arg |-> arg]
NoArg == [unit |-> TRUE]
FunctionExpectedValue == IK("FunctionExpectedValue", NoArg)
ValueExpectedFunction == IK("ValueExpectedFunction", NoArg)
WrongType(t) == IK("WrongType", [text |-> t])
WrongCategory(cat) == IK("WrongCategory", cat)
InvalidRegex(rx) == IK("InvalidRegex", [text |-> rx])
IncludeSyntaxError(file, se) == IK("IncludeSyntaxError", [filename |-> file, err |-> se])
KindSyntaxError(se) == IK("SyntaxError", se)
NotFound(name) == IK("NotFound", [text |-> name])
KindStorageError(se) == IK("StorageError", se)
KindLoadError(le) == IK("LoadError", le)
FMTError(fe) == IK("FMTError", fe)
IOError(ie) == IK("IOError", ie)
FunctionCallError(fe) == IK("FunctionCallError", fe)

InterpretErrorKinds ==
    {FunctionExpectedValue, WrongType("string"), NotFound("x"),
     IOError([io |-> "TimedOut"]), KindStorageError(StorageRetry("busy"))}

(***************************************************************************)
(* InterpretError: constructors, conversions, location                     *)
(***************************************************************************)
new(kind, origin) == [kind |-> kind, origin |-> origin]

from_statement_no_origin(stmt, kind) == [kind |-> kind, origin |-> None]

from_statement(stmt, kind) == [kind |-> kind, origin |-> Some(stmt)]

line_column_no_origin(e) == <<0, 0>>

\* Option::unwrap_or_default on (usize, usize) gives (0, 0).
line_column(e) ==
    IF e.origin.some THEN as_token(e.origin.val).line_column ELSE <<0, 0>>

column(e) == line_column(e)[2]

line(e) == line_column(e)[1]

unsupported(stmt, expected) == from_statement(stmt, WrongType(expected))

expected_value == new(FunctionExpectedValue, None)

expected_function == new(ValueExpectedFunction, None)

wrong_category(cat) == new(WrongCategory(cat), None)

not_found(name) == new(NotFound(name), None)

include_syntax_error(file, se) == new(IncludeSyntaxError(file, se), None)

unparse_regex(rx) == new(InvalidRegex(rx), None)

InterpFromTokenCategory(cat) == new(WrongCategory(cat), None)

InterpFromSyntaxError(err) == new(KindSyntaxError(err), None)

InterpFromStorageError(se) == new(KindStorageError(se), None)

InterpFromIoErrorKind(ie) == new(IOError(ie), None)

InterpFromIoError(e) == InterpFromIoErrorKind(IoErrorKindOf(e))

InterpFromFmtError(fe) == new(FMTError(fe), None)

InterpFromLoadError(le) == new(KindLoadError(le), None)

InterpFromFunctionError_keep_all(fe) == new(FunctionCallError(fe), None)

InterpFromFunctionError(fe) ==
    CASE fe.kind.variant = "IOError" -> InterpFromIoErrorKind(fe.kind.arg)
      [] fe.kind.variant = "GeneralError" -> new(KindStorageError(fe.kind.arg), None)
      [] OTHER -> new(FunctionCallError(fe), None)

\* A propagation site that lacks context attaches the enclosing statement
\* when the error has no origin yet.
attach_origin(e, stmt) == IF e.origin.some THEN e ELSE from_statement(stmt, e.kind)

(***************************************************************************)
(* InterpretError: state machine of one error on its way to the user       *)
(***************************************************************************)
NoInterpretError == [kind |-> IK("none", NoArg), origin |-> None]
NoLoc == [lc |-> <<0, 0>>, line |-> 0, column |-> 0, read |-> FALSE]

IntIdle ==
    /\ ierr = NoInterpretError
    /\ iPrev = NoInterpretError
    /\ iOp = "none"
    /\ iSrc = NoSrc
    /\ iStmt = None
    /\ iLoc = NoLoc

Raised(op, src, stmt, e) ==
    /\ ierr' = e
    /\ iPrev' = NoInterpretError
    /\ iOp' = op
    /\ iSrc' = src
    /\ iStmt' = stmt
    /\ iLoc' = NoLoc

RaiseNew ==
    \E kind \in InterpretErrorKinds, origin \in {None} \cup {Some(st) : st \in Statements} :
        /\ Raised("new", kind, origin, new(kind, origin))
        /\ UNCHANGED IntOthers

RaiseFromStatement ==
    \E stmt \in Statements, kind \in InterpretErrorKinds :
        /\ Raised("from_statement", kind, Some(stmt), from_statement(stmt, kind))
        /\ UNCHANGED IntOthers

RaiseUnsupported ==
    \E stmt \in Statements, expected \in {"string", "number"} :
        /\ Raised("unsupported", [text |-> expected], Some(stmt), unsupported(stmt, expected))
        /\ UNCHANGED IntOthers

RaiseExpectedValue ==
    /\ Raised("expected_value", NoSrc, None, expected_value)
    /\ UNCHANGED IntOthers

RaiseExpectedFunction ==
    /\ Raised("expected_function", NoSrc, None, expected_function)
    /\ UNCHANGED IntOthers

RaiseWrongCategory ==
    \E cat \in TokenCategories :
        /\ Raised("wrong_category", cat, None, wrong_category(cat))
        /\ UNCHANGED IntOthers

RaiseNotFound ==
    \E name \in {"x", "y"} :
        /\ Raised("not_found", [text |-> name], None, not_found(name))
        /\ UNCHANGED IntOthers

RaiseIncludeSyntaxError ==
    \E file \in {"a.inc"}, se \in SyntaxErrors :
        /\ Raised("include_syntax_error", se, None, include_syntax_error(file, se))
        /\ UNCHANGED IntOthers

RaiseUnparseRegex ==
    \E rx \in {"(", "["} :
        /\ Raised("unparse_regex", [text |-> rx], None, unparse_regex(rx))
        /\ UNCHANGED IntOthers

ConvertTokenCategory ==
    \E cat \in TokenCategories :
        /\ Raised("FromTokenCategory", cat, None, InterpFromTokenCategory(cat))
        /\ UNCHANGED IntOthers

ConvertSyntaxError ==
    \E se \in SyntaxErrors :
        /\ Raised("FromSyntaxError", se, None, InterpFromSyntaxError(se))
        /\ UNCHANGED IntOthers

ConvertStorageErrorInterp ==
    \E se \in StorageErrors :
        /\ Raised("FromStorageError", se, None, InterpFromStorageError(se))
        /\ UNCHANGED IntOthers

ConvertIoErrorKind ==
    \E ie \in IoErrorKinds :
        /\ Raised("FromIoErrorKind", ie, None, InterpFromIoErrorKind(ie))
        /\ UNCHANGED IntOthers

ConvertIoError ==
    \E e \in IoErrors :
        /\ Raised("FromIoError", e, None, InterpFromIoError(e))
        /\ UNCHANGED IntOthers

ConvertFmtError ==
    \E fe \in FmtErrors :
        /\ Raised("FromFmtError", fe, None, InterpFromFmtError(fe))
        /\ UNCHANGED IntOthers

ConvertLoadError ==
    \E le \in LoadErrors :
        /\ Raised("FromLoadError", le, None, InterpFromLoadError(le))
        /\ UNCHANGED IntOthers

ConvertFunctionError ==
    \E fe \in FunctionErrors :
        /\ Raised("FromFunctionError", fe, None, InterpFromFunctionError(fe))
        /\ UNCHANGED IntOthers

\* The error passes one more enclosing statement on its way up.
Propagate ==
    /\ iOp # "none"
    /\ \E stmt \in Statements :
        /\ ierr' = attach_origin(ierr, stmt)
        /\ iStmt' = Some(stmt)
    /\ iPrev' = ierr
    /\ iOp' = "propagate"
    /\ iLoc' = NoLoc
    /\ UNCHANGED iSrc
    /\ UNCHANGED IntOthers

\* line_column(&self), line(&self), column(&self)
ReadLineColumn ==
    /\ iOp \notin {"none", "line_column"}
    /\ iLoc' = [lc |-> line_column(ierr), line |-> line(ierr),
                column |-> column(ierr), read |-> TRUE]
    /\ iPrev' = ierr
    /\ iOp' = "line_column"
    /\ UNCHANGED <<ierr, iSrc, iStmt>>
    /\ UNCHANGED IntOthers

(***************************************************************************)
(* Claims about the interpreter error context                              *)
(***************************************************************************)
\* C7 as stated: converting a FunctionError gives the IOError kind with the
\* I/O error kind when the cause is an I/O failure, and for every other cause
\* the FunctionCallError kind retaining the function's name and the cause.
C7_AllOtherCausesKept ==
    iOp = "FromFunctionError" =>
        IF iSrc.kind.variant = "IOError"
        THEN ierr.kind = IOError(iSrc.kind.arg)
        ELSE /\ ierr.kind = FunctionCallError(iSrc)
             /\ ierr.kind.arg.function = iSrc.function
             /\ ierr.kind.arg.kind = iSrc.kind

\* C7 as amended: an I/O cause gives the IOError kind, a GeneralError
\* (storage) cause gives the StorageError kind with that storage error and
\* without the function's name, and every other cause gives the
\* FunctionCallError kind retaining the function's name and the cause.
C7_FunctionErrorConversion ==
    iOp = "FromFunctionError" =>
        /\ ierr.origin = None
        /\ iSrc.kind.variant = "IOError" => ierr.kind = IOError(iSrc.kind.arg)
        /\ iSrc.kind.variant = "GeneralError" =>
                /\ ierr.kind.variant = "StorageError"
                /\ ierr.kind.arg = iSrc.kind.arg
        /\ iSrc.kind.variant \notin {"IOError", "GeneralError"} =>
                /\ ierr.kind.variant = "FunctionCallError"
                /\ ierr.kind.arg.function = iSrc.function
                /\ ierr.kind.arg.kind = iSrc.kind

\* A function-call error with an I/O cause was collapsed to the IOError kind.
C7_Witness ==
    /\ iOp = "FromFunctionError"
    /\ iSrc = FunctionErrorNew("recv", NaslIOError([io |-> "TimedOut"]))
    /\ ierr.kind = IOError([io |-> "TimedOut"])

\* C8 as stated: with an origin the location is the position of the
\* statement's first token; without one it is reported as unknown and not as
\* the position (0, 0).
C8_NoOriginIsNotZeroZero ==
    iOp = "line_column" =>
        /\ ierr.origin.some => iLoc.lc = as_token(ierr.origin.val).line_column
        /\ ~ierr.origin.some => iLoc.lc # <<0, 0>>

\* C8 as amended: with an origin, line_column() (line(), column()) is the
\* position of the statement's first token; without one it is (0, 0), which
\* no statement with a real first token reports (their positions start at 1)
\* and which a statement without a token reports too.
C8_LineColumn ==
    iOp = "line_column" =>
        /\ iLoc.line = iLoc.lc[1]
        /\ iLoc.column = iLoc.lc[2]
        /\ ierr.origin.some =>
                /\ iLoc.lc = ierr.origin.val.token.line_column
                /\ ierr.origin.val.kind \notin TokenlessKinds =>
                        (iLoc.line >= 1 /\ iLoc.column >= 1)
                /\ ierr.origin.val.kind \in TokenlessKinds => iLoc.lc = <<0, 0>>
        /\ ~ierr.origin.some => iLoc.lc = <<0, 0>>

\* The location of an error whose origin starts at line 2, column 1 is read.
C8_Witness ==
    /\ iOp = "line_column"
    /\ ierr.origin = Some(StatementAt("Call", 2, 1))
    /\ iLoc.lc = <<2, 1>>
    /\ iLoc.line = 2
    /\ iLoc.column = 1

OriginlessOps ==
    {"expected_value", "expected_function", "wrong_category", "not_found",
     "include_syntax_error", "unparse_regex", "FromTokenCategory",
     "FromSyntaxError", "FromStorageError", "FromIoErrorKind", "FromIoError",
     "FromFmtError", "FromLoadError", "FromFunctionError"}

\* C9: every conversion from a lower-layer error and every helper constructor
\* other than from_statement / unsupported yields origin = None,
\* from_statement / unsupported yield the given statement, and along a
\* propagation path an origin that is present is never replaced: the first
\* statement attached stays.
C9_OriginSetOnceAtFirstFailure ==
    /\ iOp \in OriginlessOps => ierr.origin = None
    /\ iOp \in {"from_statement", "unsupported"} =>
            (iStmt.some /\ ierr.origin = Some(iStmt.val))
    /\ iOp = "new" => ierr.origin = iStmt
    /\ iOp = "propagate" =>
            /\ ierr.kind = iPrev.kind
            /\ iPrev.origin.some => ierr.origin = iPrev.origin
            /\ ~iPrev.origin.some => ierr.origin = iStmt
    /\ iOp = "line_column" => ierr = iPrev

\* An error raised on a statement passes another enclosing statement and
\* keeps its first origin.
C9_Witness ==
    /\ iOp = "propagate"
    /\ iPrev.origin = Some(StatementAt("Call", 1, 2))
    /\ iStmt = Some(StatementAt("Call", 2, 2))
    /\ ierr.origin = Some(StatementAt("Call", 1, 2))

(***************************************************************************)
(* Call site: how one built-in invocation's outcome is handled             *)
(***************************************************************************)
\* Attempts the call site allows for one invocation.
MaxAttempts == 3

\* Every FnError a built-in can hand back: a conversion, then with() or not.
ConvertedFnErrors ==
    {FromArgumentError(a) : a \in ArgumentErrors}
        \cup {FromBuiltinError(b) : b \in BuiltinErrors}
        \cup {FromInternalError(i) : i \in InternalErrors}
        \cup {FromFnErrorKind(k) : k \in FnErrorKinds}
        \cup {FromStorageError(se) : se \in StorageErrors}

BuiltFnErrors ==
    ConvertedFnErrors
        \cup {WithReturnValue(e, v) : e \in ConvertedFnErrors, v \in FallbackValues}

Success(v) == [ok |-> TRUE, val |-> v, err |-> NoFnError]
Failure(e) == [ok |-> FALSE, val |-> NullValue, err |-> e]
NoOutcome == [ok |-> FALSE, val |-> NullValue, err |-> NoFnError]

\* The call site's decision, read off retryable() and return_value().
Classify(outcome, attempts) ==
    IF outcome.ok THEN "continue"
    ELSE IF retryable(outcome.err)
        THEN (IF attempts < MaxAttempts THEN "retry" ELSE "exhausted")
    ELSE IF return_value(outcome.err).some THEN "fallback"
    ELSE "fatal"

CsIdle ==
    /\ csPc = "call"
    /\ csAttempts = 0
    /\ csOutcome = NoOutcome
    /\ csAction = "none"
    /\ csValue = None

Invoke ==
    /\ csPc = "call"
    /\ \E outcome \in {Success(v) : v \in FallbackValues}
                        \cup {Failure(e) : e \in BuiltFnErrors} :
        csOutcome' = outcome
    /\ csAttempts' = csAttempts + 1
    /\ csPc' = "returned"
    /\ UNCHANGED <<csAction, csValue>>
    /\ UNCHANGED CsOthers

HandleSuccess ==
    /\ csPc = "returned"
    /\ Classify(csOutcome, csAttempts) = "continue"
    /\ csPc' = "continue"
    /\ csAction' = "continue"
    /\ csValue' = Some(csOutcome.val)
    /\ UNCHANGED <<csAttempts, csOutcome>>
    /\ UNCHANGED CsOthers

HandleRetry ==
    /\ csPc = "returned"
    /\ Classify(csOutcome, csAttempts) = "retry"
    /\ csPc' = "call"
    /\ csAction' = "retry"
    /\ UNCHANGED <<csAttempts, csOutcome, csValue>>
    /\ UNCHANGED CsOthers

HandleExhausted ==
    /\ csPc = "returned"
    /\ Classify(csOutcome, csAttempts) = "exhausted"
    /\ csPc' = "fatal"
    /\ csAction' = "exhausted"
    /\ UNCHANGED <<csAttempts, csOutcome, csValue>>
    /\ UNCHANGED CsOthers

HandleFallback ==
    /\ csPc = "returned"
    /\ Classify(csOutcome, csAttempts) = "fallback"
    /\ csPc' = "continue"
    /\ csAction' = "fallback"
    /\ csValue' = return_value(csOutcome.err)
    /\ UNCHANGED <<csAttempts, csOutcome>>
    /\ UNCHANGED CsOthers

HandleFatal ==
    /\ csPc = "returned"
    /\ Classify(csOutcome, csAttempts) = "fatal"
    /\ csPc' = "fatal"
    /\ csAction' = "fatal"
    /\ UNCHANGED <<csAttempts, csOutcome, csValue>>
    /\ UNCHANGED CsOthers

(***************************************************************************)
(* Claims about the call site                                              *)
(***************************************************************************)
CsEnded == csPc \in {"continue", "fatal"}

CsHandledOneWay ==
    /\ csAttempts <= MaxAttempts
    /\ csPc \in {"call", "returned", "continue", "fatal"}
    /\ (csPc = "continue" /\ csAction = "continue") =>
            (csOutcome.ok /\ csValue = Some(csOutcome.val))
    /\ (csPc = "continue" /\ csAction = "fallback") =>
            /\ ~csOutcome.ok
            /\ ~retryable(csOutcome.err)
            /\ return_value(csOutcome.err).some
            /\ csValue = return_value(csOutcome.err)
    /\ csPc = "continue" => csAction \in {"continue", "fallback"}
    /\ (csPc = "fatal" /\ csAction = "fatal") =>
            /\ ~csOutcome.ok
            /\ ~retryable(csOutcome.err)
            /\ ~return_value(csOutcome.err).some
    /\ (csPc = "fatal" /\ csAction = "exhausted") =>
            /\ ~csOutcome.ok
            /\ retryable(csOutcome.err)
            /\ csAttempts = MaxAttempts
    /\ csPc = "fatal" => csAction \in {"fatal", "exhausted"}
    /\ (csPc = "call" /\ csAction = "retry") =>
            /\ ~csOutcome.ok
            /\ retryable(csOutcome.err)
            /\ csOutcome.err.kind.variant \notin {"Argument", "Builtin"}
            /\ csAttempts < MaxAttempts
    /\ (csPc = "returned" /\ ~csOutcome.ok
            /\ csOutcome.err.kind.variant \in {"Argument", "Builtin"}) =>
            Classify(csOutcome, csAttempts) \in {"fallback", "fatal"}

\* C10: each outcome is handled in exactly one way decided by retryable() and
\* return_value(): success continues with the value, a retryable error is
\* retried, a non-retryable error with a fallback continues with the fallback,
\* a non-retryable error without one is fatal; Argument and Builtin errors are
\* never retried; the attempts are bounded, exhausting them is fatal, every
\* invocation ends in continue or fatal, and an ended invocation stays ended.
C10_CallSiteHandling ==
    /\ []CsHandledOneWay
    /\ [][CsEnded => UNCHANGED csVars]_vars
    /\ <>CsEnded

\* A retryable error was retried until the attempts ran out and became fatal.
C10_Witness ==
    /\ csPc = "fatal"
    /\ csAction = "exhausted"
    /\ csAttempts = MaxAttempts
    /\ IsRetryCause(csOutcome.err)

(***************************************************************************)
(* SshSession::call: run a command and collect its output and exit status  *)
(***************************************************************************)
\* Messages the channel yields during one call.
MaxMsgs == 3

\* ChannelMsg: Data, ExitStatus, and one of the variants call ignores.
MsgData(d) == [type |-> "Data", data |-> d, exit_status |-> 0]
MsgExitStatus(c) == [type |-> "ExitStatus", data |-> <<>>, exit_status |-> c]
ChannelMsgs ==
    {MsgData(d) : d \in {<<1>>, <<2, 3>>}}
        \cup {MsgExitStatus(c) : c \in 0..MaxNum}
        \cup {[type |-> "Eof", data |-> <<>>, exit_status |-> 0]}

CallOk(c) == [kind |-> "ok", code |-> c]
CallErr == [kind |-> "err", code |-> 0]
CallPanic == [kind |-> "panic", code |-> 0]
CallRunning == [kind |-> "none", code |-> 0]

\* A loop that returns as soon as the exit status arrives.
on_message_return_on_exit(msg, code, out) ==
    CASE msg.type = "Data" ->
            [pc |-> "loop", code |-> code, out |-> out \o msg.data, result |-> CallRunning]
      [] msg.type = "ExitStatus" ->
            [pc |-> "returned", code |-> Some(msg.exit_status), out |-> out,
             result |-> CallOk(msg.exit_status)]
      [] OTHER -> [pc |-> "loop", code |-> code, out |-> out, result |-> CallRunning]

\* The match on a received message, with both stdout calls succeeding.
on_message(msg, code, out) ==
    CASE msg.type = "Data" ->
            [pc |-> "loop", code |-> code, out |-> out \o msg.data, result |-> CallRunning]
      [] msg.type = "ExitStatus" ->
            [pc |-> "loop", code |-> Some(msg.exit_status), out |-> out,
             result |-> CallRunning]
      [] OTHER -> [pc |-> "loop", code |-> code, out |-> out, result |-> CallRunning]

\* Ok(code.expect("program did not exit cleanly"))
on_channel_end(code) ==
    IF code.some THEN [pc |-> "returned", result |-> CallOk(code.val)]
    ELSE [pc |-> "panicked", result |-> CallPanic]

SshIdle ==
    /\ sshPc = "start"
    /\ sshCode = None
    /\ sshStdout = <<>>
    /\ sshReceived = <<>>
    /\ sshEnded = FALSE
    /\ sshResult = CallRunning

\* channel_open_session().await? and channel.exec(true, command).await?
OpenAndExec ==
    /\ sshPc = "start"
    /\ sshPc' = "loop"
    /\ UNCHANGED <<sshCode, sshStdout, sshReceived, sshEnded, sshResult>>
    /\ UNCHANGED SshOthers

OpenOrExecFails ==
    /\ sshPc = "start"
    /\ sshPc' = "failed"
    /\ sshResult' = CallErr
    /\ UNCHANGED <<sshCode, sshStdout, sshReceived, sshEnded>>
    /\ UNCHANGED SshOthers

\* channel.wait() yields Some(msg) and the match arm runs to its end.
WaitMessage ==
    /\ sshPc = "loop"
    /\ Len(sshReceived) < MaxMsgs
    /\ \E msg \in ChannelMsgs :
        LET n == on_message(msg, sshCode, sshStdout)
        IN  /\ sshReceived' = Append(sshReceived, msg)
            /\ sshPc' = n.pc
            /\ sshCode' = n.code
            /\ sshStdout' = n.out
            /\ sshResult' = n.result
    /\ UNCHANGED sshEnded
    /\ UNCHANGED SshOthers

\* channel.wait() yields a Data message and write_all or flush fails: part
\* of the data (write_all) or all of it (flush) may have been written.
WaitDataStdoutFails ==
    /\ sshPc = "loop"
    /\ Len(sshReceived) < MaxMsgs
    /\ \E msg \in {m \in ChannelMsgs : m.type = "Data"} :
        \E k \in 0..Len(msg.data) :
            /\ sshReceived' = Append(sshReceived, msg)
            /\ sshStdout' = sshStdout \o SubSeq(msg.data, 1, k)
    /\ sshPc' = "failed"
    /\ sshResult' = CallErr
    /\ UNCHANGED <<sshCode, sshEnded>>
    /\ UNCHANGED SshOthers

\* channel.wait() yields None: the loop breaks and call returns or panics.
WaitNone ==
    /\ sshPc = "loop"
    /\ sshEnded' = TRUE
    /\ sshPc' = on_channel_end(sshCode).pc
    /\ sshResult' = on_channel_end(sshCode).result
    /\ UNCHANGED <<sshCode, sshStdout, sshReceived>>
    /\ UNCHANGED SshOthers

(***************************************************************************)
(* Claims about SshSession::call                                           *)
(***************************************************************************)
RECURSIVE DataOf(_)
DataOf(msgs) ==
    IF msgs = <<>> THEN <<>>
    ELSE (IF Head(msgs).type = "Data" THEN Head(msgs).data ELSE <<>>) \o DataOf(Tail(msgs))

ExitPositions(msgs) == {i \in 1..Len(msgs) : msgs[i].type = "ExitStatus"}

LastExitStatus(msgs) ==
    LET i == CHOOSE i \in ExitPositions(msgs) : \A j \in ExitPositions(msgs) : j <= i
    IN  msgs[i].exit_status

\* C11: call does not return when the ExitStatus message arrives: it goes on
\* receiving until the channel yields no further message, writes every Data
\* message to stdout in arrival order, those after the ExitStatus included,
\* and then returns the most recently received exit status; a call that
\* returns a value has received an ExitStatus before the channel ended, and
\* a channel that ends without one gives no return value.
C11_ReturnsLastExitStatusAtChannelEnd ==
    /\ (sshPc = "loop" /\ sshReceived # <<>>) =>
            /\ sshResult = CallRunning
            /\ ~sshEnded
            /\ sshStdout = DataOf(sshReceived)
            /\ (ExitPositions(sshReceived) # {}) =>
                    sshCode = Some(LastExitStatus(sshReceived))
    /\ (sshPc \notin {"failed", "start"}
            /\ sshReceived # <<>>
            /\ sshReceived[Len(sshReceived)].type = "ExitStatus") =>
            (sshPc = "loop" \/ sshEnded)
    /\ sshResult.kind = "ok" =>
            /\ sshPc = "returned"
            /\ sshEnded
            /\ ExitPositions(sshReceived) # {}
            /\ sshResult.code = LastExitStatus(sshReceived)
            /\ sshStdout = DataOf(sshReceived)
    /\ sshPc = "returned" => sshResult.kind = "ok"
    /\ (sshEnded /\ ExitPositions(sshReceived) = {}) =>
            (sshPc = "panicked" /\ sshResult = CallPanic)

\* Two exit statuses and then data arrive before the channel ends: the data
\* is written and the second status is returned.
C11_Witness ==
    /\ sshPc = "returned"
    /\ sshReceived = <<MsgExitStatus(0), MsgExitStatus(1), MsgData(<<2, 3>>)>>
    /\ sshStdout = <<2, 3>>
    /\ sshResult = CallOk(1)

(***************************************************************************)
(* Specifications                                                          *)
(***************************************************************************)
InitFnError ==
    /\ FnIdle
    /\ BindIdle
    /\ RegIdle
    /\ IntIdle
    /\ CsIdle
    /\ SshIdle

NextFnError ==
    \/ ConvertArgumentError
    \/ ConvertBuiltinError
    \/ ConvertInternalError
    \/ ConvertFnErrorKind
    \/ ConvertStorageError
    \/ MissingArgument
    \/ With
    \/ ReadReturnValue
    \/ ReadRetryable

SpecFnError == InitFnError /\ [][NextFnError]_vars

InitBinder ==
    /\ BindInit
    /\ FnIdle
    /\ RegIdle
    /\ IntIdle
    /\ CsIdle
    /\ SshIdle

NextBinder ==
    \/ AddNamed
    \/ CallGetNamedData
    \/ CallGetNamedNumber
    \/ CallGetKey
    \/ CallGetData
    \/ CallGetIv
    \/ CallGetLen

SpecBinder == InitBinder /\ [][NextBinder]_vars

InitRegistry ==
    /\ RegInit
    /\ FnIdle
    /\ BindIdle
    /\ IntIdle
    /\ CsIdle
    /\ SshIdle

NextRegistry ==
    \/ Lookup

SpecRegistry == InitRegistry /\ [][NextRegistry]_vars

InitInterpret ==
    /\ IntIdle
    /\ FnIdle
    /\ BindIdle
    /\ RegIdle
    /\ CsIdle
    /\ SshIdle

NextInterpret ==
    \/ RaiseNew
    \/ RaiseFromStatement
    \/ RaiseUnsupported
    \/ RaiseExpectedValue
    \/ RaiseExpectedFunction
    \/ RaiseWrongCategory
    \/ RaiseNotFound
    \/ RaiseIncludeSyntaxError
    \/ RaiseUnparseRegex
    \/ ConvertTokenCategory
    \/ ConvertSyntaxError
    \/ ConvertStorageErrorInterp
    \/ ConvertIoErrorKind
    \/ ConvertIoError
    \/ ConvertFmtError
    \/ ConvertLoadError
    \/ ConvertFunctionError
    \/ Propagate
    \/ ReadLineColumn

SpecInterpret == InitInterpret /\ [][NextInterpret]_vars

InitCallSite ==
    /\ CsIdle
    /\ FnIdle
    /\ BindIdle
    /\ RegIdle
    /\ IntIdle
    /\ SshIdle

NextCallSite ==
    \/ Invoke
    \/ HandleSuccess
    \/ HandleRetry
    \/ HandleExhausted
    \/ HandleFallback
    \/ HandleFatal

\* The call site is a sequential loop: whichever step is enabled is taken.
SpecCallSite == InitCallSite /\ [][NextCallSite]_vars /\ WF_vars(NextCallSite)

InitSsh ==
    /\ SshIdle
    /\ FnIdle
    /\ BindIdle
    /\ RegIdle
    /\ IntIdle
    /\ CsIdle

NextSsh ==
    \/ OpenAndExec
    \/ OpenOrExecFails
    \/ WaitMessage
    \/ WaitDataStdoutFails
    \/ WaitNone

SpecSsh == InitSsh /\ [][NextSsh]_vars

====
